---- MODULE Spec2Model ----
(***************************************************************************)
(* DicomJson: the two conversion pipelines of src/dicomjson.               *)
(*   dicom2json.py  dicom2json()            DICOM -> JSON + PNG + template *)
(*   json2dicom.py  json2dicom(),                                          *)
(*                  convert_data_to_dicom() template + override -> DICOM   *)
(* Each pipeline is a sequence of steps (pc); a step that raises moves to  *)
(* pc = "raised" with the exception class in `raised`.                     *)
(***************************************************************************)
EXTENDS Integers, Sequences, FiniteSets, TLC

VARIABLES
    pc,                   \* position in dicom2json / json2dicom
    raised,               \* class of the exception that ended the call, or "None"
    dicom_file,           \* the DICOM file on disk read by dcmread: [data, meta]
    input_file,           \* dicom2json: input file name, split at its dots
    remove_dicom_fields,  \* dicom2json: names given with -rdf
    dicom_dataset,        \* Dataset being built or read: keyword -> value
    dicom_meta,           \* file-meta Dataset: keyword -> value
    img_dtype,            \* dicom2json: numpy dtype chosen from BitsStored
    dicom_image,          \* raster (numpy array): [shape, itemsize, pixels]
    output_paths,         \* dicom2json: [dataset, image, template] output file names
    dataset_json,         \* dicom2json: [meta, data] as produced by to_json_dict
    json_files,           \* JSON files on disk: file name -> document
    image_files,          \* raster files on disk: file name -> raster
    dicom_files,          \* DICOM files written by save_as: file name -> file dataset
    open_files,           \* file handles opened by open() and not closed
    warnings,             \* names logged by logger.warning / print as non-fatal
    input_filepath,       \* json2dicom: name of the override document
    input_json,           \* json2dicom: the parsed override document
    idx,                  \* json2dicom: index of the element being converted
    current_json,         \* convert_data_to_dicom: the loaded template document
    data_dict,            \* convert_data_to_dicom: current_json["data"]
    output_filename,      \* convert_data_to_dicom: override's output name or NoName
    stages                \* convert_data_to_dicom: steps completed for the element

vars == <<pc, raised, dicom_file, input_file, remove_dicom_fields, dicom_dataset,
          dicom_meta, img_dtype, dicom_image, output_paths, dataset_json,
          json_files, image_files, dicom_files, open_files, warnings,
          input_filepath, input_json, idx, current_json, data_dict,
          output_filename, stages>>

-----------------------------------------------------------------------------
(* Bounds of the model *)

MaxDim == 2         \* Rows, Columns range over 1..MaxDim
MaxStrip == 2       \* remove_dicom_fields holds at most MaxStrip names

-----------------------------------------------------------------------------
(* Values.  A Python attribute value is a number, a string or a byte       *)
(* buffer; one record shape carries all three so that values compare.      *)

Num(n) == [kind |-> "num", num |-> n, str |-> "", bytes |-> <<>>]
Str(s) == [kind |-> "str", num |-> 0, str |-> s, bytes |-> <<>>]
Bytes(b) == [kind |-> "bytes", num |-> 0, str |-> "", bytes |-> b]

\* bool(value) as Python evaluates it in `if dicom_dataset.get(name):`
Truthy(v) ==
    CASE v.kind = "num" -> v.num # 0
      [] v.kind = "str" -> v.str # ""
      [] OTHER -> v.bytes # <<>>

EmptyMap == <<>>
NoName == <<>>
NoImage == [shape |-> <<>>, itemsize |-> 0, pixels |-> <<>>]
NoPaths == [dataset |-> <<>>, image |-> <<>>, template |-> <<>>]
NoJson == [meta |-> EmptyMap, data |-> EmptyMap]
NoDoc == [kind |-> "empty", items |-> <<>>, meta |-> EmptyMap, data |-> EmptyMap]

\* constants.py (JsonConstants, PngConstants, DicomConstants)
TEMPLATE == "template"
IMAGE == "image"
OUTPUT == "output"
META == "meta"
DATA == "data"
JSON_SUFFIX == "json"
PNG_SUFFIX == "png"
DICOM_SUFFIX == "dcm"

\* The DICOM data dictionary used by to_json_dict / from_json.
DicomDictionary ==
    [PatientName    |-> [tag |-> "00100010", vr |-> "PN"],
     PatientID      |-> [tag |-> "00100020", vr |-> "LO"],
     SOPInstanceUID |-> [tag |-> "00080018", vr |-> "UI"],
     Rows           |-> [tag |-> "00280010", vr |-> "US"],
     Columns        |-> [tag |-> "00280011", vr |-> "US"],
     BitsAllocated  |-> [tag |-> "00280100", vr |-> "US"],
     BitsStored     |-> [tag |-> "00280101", vr |-> "US"],
     HighBit        |-> [tag |-> "00280102", vr |-> "US"],
     WindowCenter   |-> [tag |-> "00281050", vr |-> "DS"],
     WindowWidth    |-> [tag |-> "00281051", vr |-> "DS"],
     PixelData      |-> [tag |-> "7FE00010", vr |-> "OW"],
     TransferSyntaxUID |-> [tag |-> "00020010", vr |-> "UI"],
     FileMetaInformationGroupLength |-> [tag |-> "00020000", vr |-> "UL"]]

Keywords == DOMAIN DicomDictionary
Tags == {DicomDictionary[k].tag : k \in Keywords}
KeywordOf(tag) == CHOOSE k \in Keywords : DicomDictionary[k].tag = tag
NumericVR == {"US", "UL", "DS", "IS"}
BinaryVR == {"OW", "OB"}

\* A function without key k / with key k set to v (dict pop, dict item assignment)
Without(f, k) == [x \in (DOMAIN f) \ {k} |-> f[x]]
With(f, k, v) == [x \in (DOMAIN f) \cup {k} |-> IF x = k THEN v ELSE f[x]]

-----------------------------------------------------------------------------
(* File names.  A name is the sequence of its dot-separated components.    *)

\* pathlib PurePath.stem: the name without its last suffix
Stem(name) == IF Len(name) > 1 THEN SubSeq(name, 1, Len(name) - 1) ELSE name

\* pathlib PurePath.with_suffix: the last suffix replaced, or added if none
WithSuffix(name, suffix) == Stem(name) \o <<suffix>>

\* Path(uid): the components of a UID string
SplitDots(s) ==
    CASE s = "1.2.3" -> <<"1", "2", "3">>
      [] s = "1.2.4" -> <<"1", "2", "4">>
      [] s = "7"     -> <<"7">>
      [] OTHER       -> <<s>>

-----------------------------------------------------------------------------
(* Rasters *)

ItemSize(dtype) == IF dtype = "uint8" THEN 1 ELSE 2

RECURSIVE Product(_)
Product(shape) == IF shape = <<>> THEN 1 ELSE Head(shape) * Product(Tail(shape))

\* np.ndarray(shape, dtype, buffer): the buffer's first bytes read little-endian
NdArray(shape, dtype, buffer) ==
    [shape |-> shape,
     itemsize |-> ItemSize(dtype),
     pixels |-> [i \in 1..Product(shape) |->
                   IF ItemSize(dtype) = 1 THEN buffer[i]
                   ELSE buffer[2 * i - 1] + 256 * buffer[2 * i]]]

\* The raw bytes of an array, as save_as writes a PixelData that is an ndarray
ToBytes(image) ==
    IF image.itemsize = 1 THEN image.pixels
    ELSE [j \in 1..(2 * Len(image.pixels)) |->
            IF j % 2 = 1 THEN image.pixels[(j + 1) \div 2] % 256
            ELSE image.pixels[j \div 2] \div 256]

-----------------------------------------------------------------------------
(* The DICOM JSON model of one attribute: {"vr", "Value" | "InlineBinary"} *)

JAttr(vr, value, binary) == [vr |-> vr, Value |-> value, InlineBinary |-> binary]

\* DataElement.to_json_dict: an empty value has no "Value"
ElementToJson(keyword, v) ==
    IF DicomDictionary[keyword].vr \in BinaryVR
    THEN JAttr(DicomDictionary[keyword].vr, <<>>, v.bytes)
    ELSE JAttr(DicomDictionary[keyword].vr,
               IF v.kind = "str" /\ v.str = "" THEN <<>> ELSE <<v>>, <<>>)

\* Dataset.to_json_dict: tag -> attribute
to_json_dict(ds) ==
    [t \in {DicomDictionary[k].tag : k \in DOMAIN ds} |->
        ElementToJson(KeywordOf(t), ds[KeywordOf(t)])]

\* json.dumps(data, indent=4, sort_keys=True): a JSON object is kept as its
\* member list, a set of <<key, value>> pairs (key order carries no value)
my_json_dumps(obj) == {<<k, obj[k]>> : k \in DOMAIN obj}

\* json.loads of a member list
json_loads(members) ==
    [k \in {m[1] : m \in members} |-> (CHOOSE m \in members : m[1] = k)[2]]

-----------------------------------------------------------------------------
(* dicom2json.py *)

\* lines 57-65: the dtype for BitsStored, or the error raised
DtypeOf_ElseUint16(bits) == IF bits = 8 THEN "uint8" ELSE "uint16"
DtypeOf(bits) ==
    CASE bits = 8 -> "uint8"
      [] bits = 16 -> "uint16"
      [] OTHER -> "ValueError"

\* Dataset.get(name): the element's value, None (falsy) when absent
DatasetGetTruthy(ds, name) == name \in DOMAIN ds /\ Truthy(ds[name])

\* lines 71-78: the loop over remove_dicom_fields
RECURSIVE RemoveFields(_, _, _)
RemoveFields(ds, names, warned) ==
    IF names = <<>> THEN [ds |-> ds, warned |-> warned]
    ELSE IF DatasetGetTruthy(ds, Head(names))
         THEN RemoveFields(Without(ds, Head(names)), Tail(names), warned)
         ELSE RemoveFields(ds, Tail(names), Append(warned, Head(names)))

Raise(error) ==
    /\ pc' = "raised"
    /\ raised' = error

Dcmread ==
    /\ pc = "dcmread"
    /\ \E error \in {"None", "InvalidDicomError", "PermissionError"} :
          IF error = "None"
          THEN /\ dicom_dataset' = dicom_file.data
               /\ dicom_meta' = dicom_file.meta
               /\ pc' = "dtype"
               /\ UNCHANGED raised
          ELSE /\ Raise(error)
               /\ UNCHANGED <<dicom_dataset, dicom_meta>>
    /\ UNCHANGED <<dicom_file, input_file, remove_dicom_fields, img_dtype,
                   dicom_image, output_paths, dataset_json, json_files,
                   image_files, dicom_files, open_files, warnings, input_filepath, input_json,
                   idx, current_json, data_dict, output_filename, stages>>

SelectDtype ==
    /\ pc = "dtype"
    /\ LET t == DtypeOf(dicom_dataset.BitsStored.num) IN
          IF t = "ValueError"
          THEN Raise("ValueError") /\ UNCHANGED img_dtype
          ELSE img_dtype' = t /\ pc' = "ndarray" /\ UNCHANGED raised
    /\ UNCHANGED <<dicom_file, input_file, remove_dicom_fields, dicom_dataset,
                   dicom_meta, dicom_image, output_paths, dataset_json,
                   json_files, image_files, dicom_files, open_files, warnings,
                   input_filepath, input_json, idx, current_json, data_dict, output_filename,
                   stages>>

BuildImage ==
    /\ pc = "ndarray"
    /\ LET shape == <<dicom_dataset.Rows.num, dicom_dataset.Columns.num>>
           buffer == dicom_dataset.PixelData.bytes
       IN IF Len(buffer) < Product(shape) * ItemSize(img_dtype)
          THEN Raise("TypeError") /\ UNCHANGED dicom_image
          ELSE /\ dicom_image' = NdArray(shape, img_dtype, buffer)
               /\ pc' = "remove"
               /\ UNCHANGED raised
    /\ UNCHANGED <<dicom_file, input_file, remove_dicom_fields, dicom_dataset,
                   dicom_meta, img_dtype, output_paths, dataset_json,
                   json_files, image_files, dicom_files, open_files, warnings,
                   input_filepath, input_json, idx, current_json, data_dict, output_filename,
                   stages>>

StripFields ==
    /\ pc = "remove"
    /\ LET r == RemoveFields(dicom_dataset, remove_dicom_fields, warnings) IN
          /\ dicom_dataset' = r.ds
          /\ warnings' = r.warned
    /\ pc' = "format"
    /\ UNCHANGED <<raised, dicom_file, input_file, remove_dicom_fields,
                   dicom_meta, img_dtype, dicom_image, output_paths,
                   dataset_json, json_files, image_files, dicom_files,
                   open_files, input_filepath, input_json, idx, current_json, data_dict,
                   output_filename, stages>>

\* lines 80-91: to_json_dict of both datasets, then the three output names
FormatOutput ==
    /\ pc = "format"
    /\ IF "SOPInstanceUID" \notin DOMAIN dicom_dataset
       THEN Raise("AttributeError") /\ UNCHANGED <<dataset_json, output_paths>>
       ELSE /\ dataset_json' = [meta |-> to_json_dict(dicom_meta),
                                data |-> to_json_dict(dicom_dataset)]
            /\ LET output_filepath == SplitDots(dicom_dataset.SOPInstanceUID.str) IN
                  output_paths' =
                     [dataset |-> WithSuffix(output_filepath, JSON_SUFFIX),
                      image |-> WithSuffix(output_filepath, PNG_SUFFIX),
                      template |-> WithSuffix(Stem(input_file), JSON_SUFFIX)]
            /\ pc' = "write_dataset"
            /\ UNCHANGED raised
    /\ UNCHANGED <<dicom_file, input_file, remove_dicom_fields, dicom_dataset,
                   dicom_meta, img_dtype, dicom_image, json_files, image_files,
                   dicom_files, open_files, warnings, input_filepath, input_json, idx,
                   current_json, data_dict, output_filename, stages>>

\* open(path, "w"); write(text); close().  open may raise PermissionError
\* (the class the except clause of lines 110-113 names); nothing is undone.
WriteJsonFile(path, doc, next) ==
    \E opened \in BOOLEAN :
       IF opened
       THEN /\ json_files' = With(json_files, path, doc)
            /\ pc' = next
            /\ UNCHANGED <<raised, open_files>>
       ELSE /\ Raise("PermissionError")
            /\ UNCHANGED <<json_files, open_files>>

MetadataDocument(meta, data) ==
    [kind |-> "metadata", items |-> <<>>,
     meta |-> my_json_dumps(meta), data |-> my_json_dumps(data)]

TemplateDescriptor(template, image, output) ==
    [has |-> {TEMPLATE, IMAGE, OUTPUT}, template |-> template, image |-> image,
     output |-> output, data |-> {}]

TemplateDocument(items) ==
    [kind |-> "list", items |-> items, meta |-> {}, data |-> {}]

WriteDataset ==
    /\ pc = "write_dataset"
    /\ WriteJsonFile(output_paths.dataset,
                     MetadataDocument(dataset_json.meta, dataset_json.data),
                     "write_image")
    /\ UNCHANGED <<dicom_file, input_file, remove_dicom_fields, dicom_dataset,
                   dicom_meta, img_dtype, dicom_image, output_paths,
                   dataset_json, image_files, dicom_files, warnings, input_filepath, input_json,
                   idx, current_json, data_dict, output_filename, stages>>

\* cv2.imwrite(path, array): the PNG keeps the array's shape and element width
WriteImage ==
    /\ pc = "write_image"
    /\ image_files' = With(image_files, output_paths.image, dicom_image)
    /\ pc' = "write_template"
    /\ UNCHANGED <<raised, dicom_file, input_file, remove_dicom_fields,
                   dicom_dataset, dicom_meta, img_dtype, dicom_image,
                   output_paths, dataset_json, json_files, dicom_files,
                   open_files, warnings, input_filepath, input_json, idx, current_json,
                   data_dict, output_filename, stages>>

WriteTemplate ==
    /\ pc = "write_template"
    /\ WriteJsonFile(output_paths.template,
                     TemplateDocument(<<TemplateDescriptor(output_paths.dataset,
                                                           output_paths.image,
                                                           input_file)>>),
                     "d_done")
    /\ UNCHANGED <<dicom_file, input_file, remove_dicom_fields, dicom_dataset,
                   dicom_meta, img_dtype, dicom_image, output_paths,
                   dataset_json, image_files, dicom_files, warnings, input_filepath, input_json,
                   idx, current_json, data_dict, output_filename, stages>>

dicom2json ==
    \/ Dcmread
    \/ SelectDtype
    \/ BuildImage
    \/ StripFields
    \/ FormatOutput
    \/ WriteDataset
    \/ WriteImage
    \/ WriteTemplate

-----------------------------------------------------------------------------
(* Inputs of dicom2json *)

PixelSeeds == {3, 77}
PixelBuffer(n, seed) == [i \in 1..n |-> (seed * i) % 256]

\* A DICOM file whose pixel buffer holds Rows x Columns cells of BitsAllocated
DicomFile(bits_stored, bits_allocated, rows, cols, seed, extra) ==
    [data |-> extra @@
              [SOPInstanceUID |-> Str("1.2.3"),
               Rows |-> Num(rows),
               Columns |-> Num(cols),
               BitsAllocated |-> Num(bits_allocated),
               BitsStored |-> Num(bits_stored),
               HighBit |-> Num(bits_stored - 1),
               PixelData |-> Bytes(PixelBuffer(rows * cols * (bits_allocated \div 8), seed))],
     meta |-> [TransferSyntaxUID |-> Str("1.2.840.10008.1.2.1")]]

\* BitsAllocated is a whole number of bytes holding BitsStored bits
AllocatedFor(bits) == {b \in {8, 16} : b >= bits}

StripNames == {"PatientID", "SOPInstanceUID", "StudyDate"}

RECURSIVE SeqsUpTo(_, _)
SeqsUpTo(S, n) ==
    IF n = 0 THEN {<<>>}
    ELSE SeqsUpTo(S, n - 1) \cup
         {Append(s, x) : s \in {t \in SeqsUpTo(S, n - 1) : Len(t) = n - 1}, x \in S}

PatientIDs == {EmptyMap, [PatientID |-> Str("")], [PatientID |-> Str("Z")]}

InputFiles == {<<"ct", "dcm">>, <<"1", "2", "9", "dcm">>}

InitCommon ==
    /\ raised = "None"
    /\ dicom_dataset = EmptyMap
    /\ dicom_meta = EmptyMap
    /\ img_dtype = "None"
    /\ dicom_image = NoImage
    /\ output_paths = NoPaths
    /\ dataset_json = NoJson
    /\ dicom_files = EmptyMap
    /\ open_files = {}
    /\ warnings = <<>>
    /\ idx = 0
    /\ current_json = NoDoc
    /\ data_dict = EmptyMap
    /\ output_filename = NoName
    /\ stages = <<>>

InitD ==
    /\ InitCommon
    /\ pc = "dcmread"
    /\ \E bits \in {8, 12, 16}, rows \in 1..MaxDim, cols \in 1..MaxDim,
          seed \in PixelSeeds, extra \in PatientIDs :
          \E alloc \in AllocatedFor(bits) :
             dicom_file = DicomFile(bits, alloc, rows, cols, seed, extra)
    /\ input_file \in InputFiles
    /\ remove_dicom_fields \in SeqsUpTo(StripNames, MaxStrip)
    /\ json_files = EmptyMap
    /\ image_files = EmptyMap
    /\ input_filepath = NoName
    /\ input_json = NoDoc

SpecD == InitD /\ [][dicom2json]_vars

-----------------------------------------------------------------------------
(* json2dicom.py *)

\* Variables that only dicom2json assigns
d_locals == <<dicom_file, input_file, remove_dicom_fields, img_dtype,
              output_paths, dataset_json>>

Directories == {<<"dir">>}

\* json.loads(file.read()) of a document on disk
LoadDoc(doc) ==
    [kind |-> doc.kind,
     items |-> [i \in 1..Len(doc.items) |->
                  [doc.items[i] EXCEPT !.data = json_loads(@)]],
     meta |-> json_loads(doc.meta),
     data |-> json_loads(doc.data)]

\* The object convert_data_to_dicom is called with
Element == input_json.items[idx]

\* dict.update: the argument's entries win, the other keys are kept
Update_TemplateWins(d, o) ==
    [k \in (DOMAIN d) \cup (DOMAIN o) |-> IF k \in DOMAIN d THEN d[k] ELSE o[k]]
Update(d, o) ==
    [k \in (DOMAIN d) \cup (DOMAIN o) |-> IF k \in DOMAIN o THEN o[k] ELSE d[k]]

\* Dataset().from_json of one {tag: attribute} pair raises (ValueError,
\* TypeError): the key is no tag, or a numeric VR holds a non-numeric value
DecodeFails(tag, attr) ==
    \/ tag \notin Tags
    \/ /\ attr.vr \in NumericVR
       /\ \E i \in 1..Len(attr.Value) : attr.Value[i].kind # "num"

\* DataElement.from_json: the decoded value
ElementFromJson(attr) ==
    IF attr.vr \in BinaryVR THEN Bytes(attr.InlineBinary)
    ELSE IF attr.Value = <<>> THEN Str("") ELSE attr.Value[1]

\* Dataset().from_json of a whole attribute map
from_json(map) ==
    [k \in {KeywordOf(t) : t \in DOMAIN map} |->
        ElementFromJson(map[DicomDictionary[k].tag])]

FromJsonFails(map) == \E t \in DOMAIN map : DecodeFails(t, map[t])

\* lines 63-72: the keys collected in dicom_fields_with_error
FieldsWithError_None(map) == {}
FieldsWithError(map) == {t \in DOMAIN map : DecodeFails(t, map[t])}

\* lines 74-75: the map after `del data_dict[...]` of each collected key
RemoveErrorFields(map, errors) == [t \in (DOMAIN map) \ errors |-> map[t]]

RECURSIVE SetToSeq(_)
SetToSeq(S) ==
    IF S = {} THEN <<>>
    ELSE LET x == CHOOSE y \in S : TRUE IN <<x>> \o SetToSeq(S \ {x})

\* lines 87-89: the override names an image
ImageGiven_Never(element) == FALSE
ImageGiven(element) == IMAGE \in element.has /\ element.image # NoName

\* lines 111-118: the attributes computed from the raster.  HighBits is the
\* name the code assigns; it is no keyword of the data dictionary (High Bit
\* is HighBit), so the assignment makes an attribute of the Python object and
\* no data element.
ImageAttributes_KeepTemplate(ds, image) ==
    LET bit_depth == 8 * image.itemsize
        derived ==
          [BitsAllocated |-> Num(bit_depth),
           BitsStored |-> Num(bit_depth),
           HighBits |-> Num(bit_depth - 1),
           WindowCenter |-> Num(2 ^ (bit_depth - 1)),
           WindowWidth |-> Num(2 ^ bit_depth - 1),
           Rows |-> Num(image.shape[1]),
           Columns |-> Num(image.shape[2]),
           PixelData |-> Bytes(ToBytes(image))]
    IN ds @@ derived
ImageAttributes(ds, image) ==
    LET bit_depth == 8 * image.itemsize
        derived ==
          [BitsAllocated |-> Num(bit_depth),
           BitsStored |-> Num(bit_depth),
           HighBits |-> Num(bit_depth - 1),
           WindowCenter |-> Num(2 ^ (bit_depth - 1)),
           WindowWidth |-> Num(2 ^ bit_depth - 1),
           Rows |-> Num(image.shape[1]),
           Columns |-> Num(image.shape[2]),
           PixelData |-> Bytes(ToBytes(image))]
    IN derived @@ ds

\* FileDataset(name, dataset, file_meta, preamble): the data elements of
\* `dataset` (attributes that are no DICOM keyword are not elements)
FileDataset(ds, meta) ==
    [data |-> [k \in (DOMAIN ds) \cap Keywords |-> ds[k]],
     meta |-> meta,
     preamble |-> 128,
     is_little_endian |-> TRUE,
     is_implicit_VR |-> FALSE]

\* lines 147-148: open(input_filepath), json.loads
OpenInput ==
    /\ pc = "open_input"
    /\ open_files' = open_files \cup {input_filepath}
    /\ IF json_files[input_filepath].kind = "empty"
       THEN Raise("ValueError") /\ UNCHANGED <<input_json, idx>>
       ELSE /\ input_json' = LoadDoc(json_files[input_filepath])
            /\ idx' = 1
            /\ pc' = IF Len(json_files[input_filepath].items) = 0
                     THEN "r_done" ELSE "check_template"
            /\ UNCHANGED raised
    /\ UNCHANGED <<d_locals, dicom_dataset, dicom_meta, dicom_image,
                   json_files, image_files, dicom_files, warnings,
                   input_filepath, current_json, data_dict, output_filename,
                   stages>>

\* lines 30-33
CheckTemplate ==
    /\ pc = "check_template"
    /\ IF TEMPLATE \notin Element.has
       THEN Raise("ValueError") /\ stages' = <<>>
       ELSE pc' = "resolve_template" /\ stages' = <<"Parsed">> /\ UNCHANGED raised
    /\ UNCHANGED <<d_locals, dicom_dataset, dicom_meta, dicom_image,
                   json_files, image_files, dicom_files, open_files, warnings,
                   input_filepath, input_json, idx, current_json, data_dict,
                   output_filename>>

\* lines 35-46
ResolveTemplate ==
    /\ pc = "resolve_template"
    /\ LET template_filepath == Element.template IN
          IF template_filepath \notin (DOMAIN json_files) \cup Directories
          THEN Raise("ValueError") /\ UNCHANGED <<open_files, current_json, stages>>
          ELSE IF template_filepath \in Directories
          THEN Raise("ValueError") /\ UNCHANGED <<open_files, current_json, stages>>
          ELSE /\ open_files' = open_files \cup {template_filepath}
               /\ IF json_files[template_filepath].kind = "empty"
                  THEN Raise("ValueError") /\ UNCHANGED <<current_json, stages>>
                  ELSE /\ current_json' = LoadDoc(json_files[template_filepath])
                       /\ stages' = Append(stages, "TemplateResolved")
                       /\ pc' = "merge"
                       /\ UNCHANGED raised
    /\ UNCHANGED <<d_locals, dicom_dataset, dicom_meta, dicom_image,
                   json_files, image_files, dicom_files, warnings,
                   input_filepath, input_json, idx, data_dict, output_filename>>

\* lines 48-59: current_json["data"].update(...), output_filename, Dataset()
Merge ==
    /\ pc = "merge"
    /\ IF DATA \in Element.has /\ current_json.kind = "list"
       THEN Raise("TypeError")
            /\ UNCHANGED <<current_json, output_filename, stages,
                           dicom_dataset, dicom_meta>>
       ELSE /\ current_json' =
                  IF DATA \in Element.has
                  THEN [current_json EXCEPT !.data = Update(@, Element.data)]
                  ELSE current_json
            /\ output_filename' =
                  IF OUTPUT \in Element.has THEN Element.output ELSE NoName
            /\ dicom_dataset' = EmptyMap
            /\ dicom_meta' = EmptyMap
            /\ stages' = Append(stages, "Merged")
            /\ pc' = "validate"
            /\ UNCHANGED raised
    /\ UNCHANGED <<d_locals, dicom_image, json_files, image_files,
                   dicom_files, open_files, warnings, input_filepath,
                   input_json, idx, data_dict>>

\* lines 61-75: data_dict is current_json["data"] itself, so the deletions
\* show in both
ValidateFields ==
    /\ pc = "validate"
    /\ IF current_json.kind = "list"
       THEN Raise("TypeError")
            /\ UNCHANGED <<current_json, data_dict, warnings, stages>>
       ELSE LET dicom_fields_with_error == FieldsWithError(current_json.data)
                validated == RemoveErrorFields(current_json.data,
                                               dicom_fields_with_error)
            IN /\ data_dict' = validated
               /\ current_json' = [current_json EXCEPT !.data = validated]
               /\ warnings' = warnings \o SetToSeq(dicom_fields_with_error)
               /\ stages' = Append(stages, "FieldsValidated")
               /\ pc' = "decode"
               /\ UNCHANGED raised
    /\ UNCHANGED <<d_locals, dicom_dataset, dicom_meta, dicom_image,
                   json_files, image_files, dicom_files, open_files,
                   input_filepath, input_json, idx, output_filename>>

\* lines 77-84
Decode ==
    /\ pc = "decode"
    /\ IF FromJsonFails(data_dict) \/ FromJsonFails(current_json.meta)
       THEN Raise("ValueError") /\ UNCHANGED <<dicom_dataset, dicom_meta, stages>>
       ELSE /\ dicom_dataset' = from_json(data_dict)
            /\ dicom_meta' = from_json(current_json.meta)
            /\ stages' = Append(stages, "Decoded")
            /\ pc' = "image"
            /\ UNCHANGED raised
    /\ UNCHANGED <<d_locals, dicom_image, json_files, image_files,
                   dicom_files, open_files, warnings, input_filepath,
                   input_json, idx, current_json, data_dict, output_filename>>

\* lines 86-118
ApplyImage ==
    /\ pc = "image"
    /\ IF ~ImageGiven(Element)
       THEN /\ pc' = "serialize"
            /\ UNCHANGED <<raised, dicom_dataset, dicom_image, stages>>
       ELSE LET image_filepath == Element.image IN
            IF image_filepath \notin (DOMAIN image_files) \cup Directories
            THEN Raise("ValueError") /\ UNCHANGED <<dicom_dataset, dicom_image, stages>>
            ELSE IF image_filepath \in Directories
            THEN Raise("ValueError") /\ UNCHANGED <<dicom_dataset, dicom_image, stages>>
            ELSE LET image == image_files[image_filepath] IN
                 IF Len(image.shape) < 3
                 THEN /\ dicom_image' = image
                      /\ dicom_dataset' = ImageAttributes(dicom_dataset, image)
                      /\ stages' = Append(stages, "ImageApplied")
                      /\ pc' = "serialize"
                      /\ UNCHANGED raised
                 ELSE /\ dicom_image' = image
                      /\ Raise("ValueError")
                      /\ UNCHANGED <<dicom_dataset, stages>>
    /\ UNCHANGED <<d_locals, dicom_meta, json_files, image_files, dicom_files,
                   open_files, warnings, input_filepath, input_json, idx,
                   current_json, data_dict, output_filename>>

\* lines 120-133, then the next turn of the loop of json2dicom (lines 151-155).
\* The locals of the call that returned keep their values until the next call
\* assigns them.
Serialize ==
    /\ pc = "serialize"
    /\ IF output_filename = NoName /\ "SOPInstanceUID" \notin DOMAIN dicom_dataset
       THEN Raise("AttributeError") /\ UNCHANGED <<dicom_files, stages, idx>>
       ELSE LET output_filepath ==
                   IF output_filename # NoName THEN output_filename
                   ELSE WithSuffix(SplitDots(dicom_dataset.SOPInstanceUID.str),
                                   DICOM_SUFFIX)
            IN \E saved \in BOOLEAN :
                  IF saved
                  THEN /\ dicom_files' = With(dicom_files, output_filepath,
                                              FileDataset(dicom_dataset, dicom_meta))
                       /\ stages' = Append(stages, "Serialized")
                       /\ IF idx < Len(input_json.items)
                          THEN idx' = idx + 1 /\ pc' = "check_template"
                          ELSE idx' = idx /\ pc' = "r_done"
                       /\ UNCHANGED raised
                  ELSE /\ Raise("PermissionError")
                       /\ UNCHANGED <<dicom_files, stages, idx>>
    /\ UNCHANGED <<d_locals, dicom_dataset, dicom_meta, dicom_image,
                   json_files, image_files, open_files, warnings,
                   input_filepath, input_json, current_json, data_dict,
                   output_filename>>

convert_data_to_dicom ==
    \/ CheckTemplate
    \/ ResolveTemplate
    \/ Merge
    \/ ValidateFields
    \/ Decode
    \/ ApplyImage
    \/ Serialize

json2dicom ==
    \/ OpenInput
    \/ convert_data_to_dicom

-----------------------------------------------------------------------------
(* Inputs of json2dicom *)

MaxElems == 2       \* an override document that is a list holds 1..MaxElems objects

\* One object of the override document, as it is on disk
Override(has, template, data, image, output) ==
    [has |-> has,
     template |-> IF TEMPLATE \in has THEN template ELSE NoName,
     data |-> IF DATA \in has THEN my_json_dumps(data) ELSE {},
     image |-> IF IMAGE \in has THEN image ELSE NoName,
     output |-> IF OUTPUT \in has THEN output ELSE NoName]

TemplateDataset ==
    [SOPInstanceUID |-> Str("1.2.4"),
     PatientName |-> Str("Y"),
     PatientID |-> Str("Z"),
     Rows |-> Num(1),
     Columns |-> Num(1),
     BitsAllocated |-> Num(8),
     BitsStored |-> Num(8),
     HighBit |-> Num(7),
     WindowCenter |-> Num(40),
     WindowWidth |-> Num(400),
     PixelData |-> Bytes(<<5>>)]

TemplateMeta == [TransferSyntaxUID |-> Str("1.2.840.10008.1.2.1")]

GoodTemplate == <<"tpl", "json">>
BadMetaTemplate == <<"badmeta", "json">>
OverridePath == <<"input", "json">>

TemplateFiles ==
    (GoodTemplate :> MetadataDocument(to_json_dict(TemplateMeta),
                                      to_json_dict(TemplateDataset)))
    @@ (BadMetaTemplate :>
          MetadataDocument(("00020000" :> JAttr("UL", <<Str("abc")>>, <<>>)),
                           to_json_dict(TemplateDataset)))

TemplateChoices == {GoodTemplate, BadMetaTemplate, <<"missing", "json">>, <<"dir">>}

DataOverrides ==
    { EmptyMap,
      ("00100010" :> JAttr("PN", <<Str("X")>>, <<>>)),
      ("00280010" :> JAttr("US", <<Str("abc")>>, <<>>)),
      ("00100010" :> JAttr("PN", <<Str("X")>>, <<>>))
        @@ ("00281050" :> JAttr("DS", <<Str("wide")>>, <<>>))
        @@ ("XYZ" :> JAttr("LO", <<Str("q")>>, <<>>)),
      ("00280101" :> JAttr("US", <<Num(12)>>, <<>>)) }

Gray8 == <<"gray8", "png">>
Gray16 == <<"gray16", "png">>
Rgb == <<"rgb", "png">>

\* cv2.imread(path, IMREAD_UNCHANGED): a grayscale PNG is a 2-D array of
\* uint8 or uint16, a colour PNG a 3-D array
ImageFiles(rows, cols) ==
    (Gray8 :> [shape |-> <<rows, cols>>, itemsize |-> 1,
               pixels |-> [i \in 1..(rows * cols) |-> (7 * i) % 256]])
    @@ (Gray16 :> [shape |-> <<rows, cols>>, itemsize |-> 2,
                   pixels |-> [i \in 1..(rows * cols) |-> (7001 * i) % 65536]])
    @@ (Rgb :> [shape |-> <<rows, cols, 3>>, itemsize |-> 1,
                pixels |-> [i \in 1..(rows * cols * 3) |-> (7 * i) % 256]])

ImageChoices == {Gray8, Gray16, Rgb, <<"nofile", "png">>, <<"dir">>, NoName}

OutputChoices == {<<"out", "dcm">>}

Overrides ==
    { Override(has, t, d, i, o) :
        has \in SUBSET {TEMPLATE, DATA, IMAGE, OUTPUT},
        t \in TemplateChoices, d \in DataOverrides, i \in ImageChoices,
        o \in OutputChoices }

\* The objects that lists are drawn from
ListOverrides ==
    { Override({DATA}, NoName, EmptyMap, NoName, NoName),
      Override({TEMPLATE}, GoodTemplate, EmptyMap, NoName, NoName),
      Override({TEMPLATE, OUTPUT}, <<"missing", "json">>, EmptyMap, NoName,
               <<"out", "dcm">>),
      Override({TEMPLATE, DATA, IMAGE, OUTPUT}, GoodTemplate,
               ("00280010" :> JAttr("US", <<Str("abc")>>, <<>>)), Gray16,
               <<"out", "dcm">>) }

\* A file that json.loads rejects (JSONDecodeError, a ValueError)
InvalidJson == [kind |-> "empty", items |-> <<>>, meta |-> {}, data |-> {}]

OverrideDocuments ==
    {InvalidJson} \cup
    { [kind |-> "object", items |-> <<e>>, meta |-> {}, data |-> {}] :
        e \in Overrides }
    \cup
    { [kind |-> "list", items |-> items, meta |-> {}, data |-> {}] :
        items \in SeqsUpTo(ListOverrides, MaxElems) }

InitR ==
    /\ InitCommon
    /\ pc = "open_input"
    /\ dicom_file = [data |-> EmptyMap, meta |-> EmptyMap]
    /\ input_file = NoName
    /\ remove_dicom_fields = <<>>
    /\ input_filepath = OverridePath
    /\ \E doc \in OverrideDocuments :
          json_files = (OverridePath :> doc) @@ TemplateFiles
    /\ \E rows \in 1..MaxDim, cols \in 1..MaxDim :
          image_files = ImageFiles(rows, cols)
    /\ input_json = NoDoc

SpecR == InitR /\ [][json2dicom]_vars

-----------------------------------------------------------------------------
(* Round trip: dicom2json, then json2dicom on the template it wrote *)

\* json2dicom.py main(): a new run, on the template document
StartReconstruct ==
    /\ pc = "d_done"
    /\ pc' = "open_input"
    /\ input_filepath' = output_paths.template
    /\ dicom_dataset' = EmptyMap
    /\ dicom_meta' = EmptyMap
    /\ dicom_image' = NoImage
    /\ open_files' = {}
    /\ UNCHANGED <<raised, d_locals, json_files, image_files, dicom_files,
                   warnings, input_json, idx, current_json, data_dict,
                   output_filename, stages>>

\* Display window of the original: any window, or the full range of the depth
WindowChoices(bits) ==
    { [WindowCenter |-> Num(40), WindowWidth |-> Num(400)],
      [WindowCenter |-> Num(2 ^ (bits - 1)), WindowWidth |-> Num(2 ^ bits - 1)] }

InitRT ==
    /\ InitCommon
    /\ pc = "dcmread"
    /\ \E bits \in {8, 16}, rows \in 1..MaxDim, cols \in 1..MaxDim,
          seed \in PixelSeeds, name \in PatientIDs :
          \E window \in WindowChoices(bits) :
             dicom_file = DicomFile(bits, bits, rows, cols, seed, name @@ window)
    /\ input_file \in InputFiles
    /\ remove_dicom_fields = <<>>
    /\ json_files = EmptyMap
    /\ image_files = EmptyMap
    /\ input_filepath = NoName
    /\ input_json = NoDoc

RoundTrip ==
    \/ dicom2json
    \/ StartReconstruct
    \/ json2dicom

SpecRT == InitRT /\ [][RoundTrip]_vars

-----------------------------------------------------------------------------
(* Properties of dicom2json (specification SpecD) *)

OriginalBits == dicom_file.data.BitsStored.num

\* C5: the raster's element width is chosen from BitsStored alone (8 ->
\* uint8, 16 -> uint16); with any other BitsStored the call has raised
\* ValueError as soon as the dtype step is passed, and no output file exists.
C5_DepthFromBitsStored ==
    /\ img_dtype # "None" =>
          \/ OriginalBits = 8 /\ img_dtype = "uint8"
          \/ OriginalBits = 16 /\ img_dtype = "uint16"
    /\ dicom_image # NoImage => 8 * dicom_image.itemsize = OriginalBits
    /\ (OriginalBits \notin {8, 16} /\ dicom_dataset # EmptyMap /\ pc # "dtype") =>
          /\ pc = "raised"
          /\ raised = "ValueError"
          /\ DOMAIN json_files = {}
          /\ DOMAIN image_files = {}

C5_Witness ==
    /\ OriginalBits = 12
    /\ pc = "raised"
    /\ raised = "ValueError"
    /\ DOMAIN json_files = {}

StripDone == pc \in {"format", "write_dataset", "write_image", "write_template", "d_done"}

\* C6: once the strip loop has run, every name of remove_dicom_fields that
\* the dataset held is gone from the dataset and from the metadata JSON, and
\* stripping never makes the run fail.
C6_StripRemovesPresentFields ==
    /\ StripDone =>
          \A i \in 1..Len(remove_dicom_fields) :
             remove_dicom_fields[i] \in DOMAIN dicom_file.data =>
                /\ remove_dicom_fields[i] \notin DOMAIN dicom_dataset
                /\ DicomDictionary[remove_dicom_fields[i]].tag
                      \notin DOMAIN dataset_json.data
    /\ raised # "AttributeError"

\* C8: a call that ended in an error has left no output file behind.
C8_NoPartialOutput ==
    pc = "raised" => DOMAIN json_files = {} /\ DOMAIN image_files = {}

-----------------------------------------------------------------------------
(* Properties of json2dicom (specification SpecR) *)

Has(s, x) == \E i \in 1..Len(s) : s[i] = x

Ended == pc \in {"d_done", "r_done", "raised"}

\* C1: with a list of two objects whose first lacks `template`, the second
\* is still converted: the run does not end before its turn.
C1_SecondElementAttempted ==
    ( /\ pc \in {"r_done", "raised"}
      /\ input_json.kind = "list"
      /\ Len(input_json.items) = 2
      /\ TEMPLATE \notin input_json.items[1].has
      /\ TEMPLATE \in input_json.items[2].has )
    => idx = 2

\* The template document as loaded, before any merge
LoadedTemplate == LoadDoc(json_files[Element.template])

\* C4: after the merge, every key of the override's `data` maps to the
\* override's value, every other key of the template to the template's
\* value, and no other key exists; without `data` in the override the
\* template's map is as loaded; `meta` is as loaded in both cases.
C4_ShallowMerge ==
    pc = "validate" =>
       /\ current_json.meta = LoadedTemplate.meta
       /\ IF DATA \in Element.has
          THEN /\ DOMAIN current_json.data =
                     (DOMAIN LoadedTemplate.data) \cup (DOMAIN Element.data)
               /\ \A k \in DOMAIN Element.data :
                     current_json.data[k] = Element.data[k]
               /\ \A k \in (DOMAIN LoadedTemplate.data) \ (DOMAIN Element.data) :
                     current_json.data[k] = LoadedTemplate.data[k]
          ELSE current_json.data = LoadedTemplate.data

C4_Witness ==
    /\ pc = "validate"
    /\ DATA \in Element.has
    /\ Element.template = GoodTemplate
    /\ DOMAIN Element.data = {"00100010", "00281050", "XYZ"}
    /\ current_json.data["00100010"] = JAttr("PN", <<Str("X")>>, <<>>)
    /\ current_json.data["00100020"] = JAttr("LO", <<Str("Z")>>, <<>>)

OutputFilepath ==
    IF output_filename # NoName THEN output_filename
    ELSE WithSuffix(SplitDots(dicom_dataset.SOPInstanceUID.str), DICOM_SUFFIX)

\* C7: with a single-channel raster of depth b given as `image`, the saved
\* dataset holds BitsAllocated = BitsStored = b, HighBits = b - 1,
\* WindowCenter = 2^(b-1), WindowWidth = 2^b - 1, Rows, Columns and PixelData
\* of the raster; a raster with a third dimension is rejected (ValueError).
C7_ImageAttributesSaved ==
    /\ (pc = "r_done" /\ Has(stages, "ImageApplied")) =>
          LET image == image_files[Element.image]
              b == 8 * image.itemsize
              saved == dicom_files[OutputFilepath].data
          IN /\ {"BitsAllocated", "BitsStored", "HighBits", "WindowCenter",
                 "WindowWidth", "Rows", "Columns", "PixelData"} \subseteq DOMAIN saved
             /\ saved.BitsAllocated = Num(b)
             /\ saved.BitsStored = Num(b)
             /\ saved.HighBits = Num(b - 1)
             /\ saved.WindowCenter = Num(2 ^ (b - 1))
             /\ saved.WindowWidth = Num(2 ^ b - 1)
             /\ saved.Rows = Num(image.shape[1])
             /\ saved.Columns = Num(image.shape[2])
             /\ saved.PixelData = Bytes(ToBytes(image))
    /\ (pc = "serialize" /\ IMAGE \in Element.has /\ Element.image \in DOMAIN image_files) =>
          Len(image_files[Element.image].shape) < 3

\* C9: when a call has ended, by returning or by raising, no file handle it
\* opened is still open.
C9_HandlesClosed == Ended => open_files = {}

AllStages == <<"Parsed", "TemplateResolved", "Merged", "FieldsValidated",
               "Decoded", "ImageApplied", "Serialized">>
StagesWithoutImage == <<"Parsed", "TemplateResolved", "Merged",
                        "FieldsValidated", "Decoded", "Serialized">>
Prefixes(s) == {SubSeq(s, 1, n) : n \in 0..Len(s)}

-----------------------------------------------------------------------------
(* Round trip (specification SpecRT) *)

\* C2: after dicom2json and json2dicom on the template it wrote, the saved
\* dataset's data map equals the original's, and so does its pixel array.
C2_RoundTripIdentical ==
    pc = "r_done" =>
       LET saved == dicom_files[input_file].data
           original == dicom_file.data
           shape(ds) == <<ds.Rows.num, ds.Columns.num>>
           dtype(ds) == DtypeOf(ds.BitsStored.num)
       IN /\ saved = original
          /\ NdArray(shape(saved), dtype(saved), saved.PixelData.bytes)
               = NdArray(shape(original), dtype(original), original.PixelData.bytes)

====
